---------------------------- MODULE Spec2Model ----------------------------
(***************************************************************************)
(* kush - the knowable unix shell (src/kush.c).                            *)
(*                                                                         *)
(* Strings are sequences of one-character strings.  A C buffer is a        *)
(* sequence of characters indexed from 1; a char* is an index into the     *)
(* buffer and the null pointer is 0.                                       *)
(***************************************************************************)
EXTENDS Integers, Sequences, FiniteSets, TLC

\* ------------------------------------------------------------- bounds
\* Longest line drawn over the core alphabet (tokenizer specification).
MaxLen == 5
\* Longest line drawn over the full alphabet (all five delimiters).
MaxShort == 3
\* Number of bytes of indeterminate memory modelled behind the line's NUL.
MaxGarbage == 1
\* Number of lines the read-eval loop reads before the model stops reading.
MaxLines == 2
\* Number of SIGINT deliveries in one run of the loop.
MaxSigs == 2
\* Largest number of tokens on a line of the long-line specification.
MaxTokens == 66
\* Longest run of delimiters inside the quoted lines of the tokenizer
\* specification.
MaxRun == 2

\* --------------------------------------------------------- characters
NUL == "\\0"
SP == " "
TAB == "\t"
CR == "\r"
LF == "\n"
BEL == "\\a"
DQ == "\""
SQ == "'"
\* The null pointer.
NULL == 0

\* #define KUSH_TOK_BUFF_SIZE 64
KUSH_TOK_BUFF_SIZE == 64
\* A delimiter string that lacks the bell.
KUSH_TOK_DELIM_no_bel == {SP, TAB, CR, LF}

\* #define KUSH_TOK_DELIM " \t\r\n\a"
KUSH_TOK_DELIM == {SP, TAB, CR, LF, BEL}

\* ------------------------------------------------------- libc strings
\* strlen(&buf[p]): distance from p to the first NUL at or after p.
strlen(buf, p) ==
  (CHOOSE i \in p..Len(buf) :
      buf[i] = NUL /\ \A j \in p..(i - 1) : buf[j] # NUL) - p

\* strspn(&buf[p], KUSH_TOK_DELIM): length of the leading run of delimiters.
strspn(buf, p) ==
  (CHOOSE i \in p..Len(buf) :
      buf[i] \notin KUSH_TOK_DELIM
      /\ \A j \in p..(i - 1) : buf[j] \in KUSH_TOK_DELIM) - p

\* strcspn(&buf[p], KUSH_TOK_DELIM): length of the leading delimiter-free run.
strcspn(buf, p) ==
  (CHOOSE i \in p..Len(buf) :
      (buf[i] = NUL \/ buf[i] \in KUSH_TOK_DELIM)
      /\ \A j \in p..(i - 1) : buf[j] # NUL /\ buf[j] \notin KUSH_TOK_DELIM) - p

\* strtok(s, KUSH_TOK_DELIM) continuing at s (the argument of the first call,
\* the saved pointer of the later ones): skips delimiters, returns the start
\* of the next run and writes a NUL over the delimiter that ends it.
strtok(buf, s) ==
  LET b == s + strspn(buf, s) IN
  IF buf[b] = NUL
  THEN [buf |-> buf, save |-> b, token |-> NULL]
  ELSE LET e == b + strcspn(buf, b) IN
       IF buf[e] = NUL
       THEN [buf |-> buf, save |-> e, token |-> b]
       ELSE [buf |-> [buf EXCEPT ![e] = NUL], save |-> e + 1, token |-> b]

\* The C string at pointer p of buf.
CStr(buf, p) == SubSeq(buf, p, p + strlen(buf, p) - 1)

\* ---------------------------------------------------------- tokenizer
\* An inner loop that leaves the terminator of a run in place.
RECURSIVE quote_loop_keeps_terminator(_, _, _, _)
quote_loop_keeps_terminator(buf, save, token, q) ==
  IF token # NULL /\ buf[token + strlen(buf, token) - 1] # q
  THEN LET e == token + strlen(buf, token) IN
       IF e = Len(buf)
       THEN [buf |-> buf, save |-> save, token |-> token, fault |-> TRUE]
       ELSE LET r == strtok(buf, save) IN
            quote_loop_keeps_terminator(r.buf, r.save, r.token, q)
  ELSE [buf |-> buf, save |-> save, token |-> token, fault |-> FALSE]

\* The inner while loop of kush_tokenize (lines 142-152): as long as the
\* current run does not end with the quote character q, its terminator is
\* overwritten with a space and the next run is fetched.  fault is set when
\* the overwritten terminator is the last byte of the modelled memory, so
\* that strtok would go on reading behind it.
RECURSIVE quote_loop(_, _, _, _)
quote_loop(buf, save, token, q) ==
  IF token # NULL /\ buf[token + strlen(buf, token) - 1] # q
  THEN LET e == token + strlen(buf, token) IN
       IF e = Len(buf)
       THEN [buf |-> buf, save |-> save, token |-> token, fault |-> TRUE]
       ELSE LET r == strtok([buf EXCEPT ![e] = SP], save) IN
            quote_loop(r.buf, r.save, r.token, q)
  ELSE [buf |-> buf, save |-> save, token |-> token, fault |-> FALSE]

\* The outer while loop of kush_tokenize (lines 136-183) and the final
\* terminator write (line 185).  st.tokens holds the pointers written so far,
\* st.pos = Len(st.tokens); st.oob records a write at an index that is not
\* below the allocated capacity st.buff_size.
RECURSIVE tok_loop(_, _)
tok_loop(st, realloc_ok) ==
  IF st.token = NULL
  THEN [status |-> "ok", buf |-> st.buf,
        tokens |-> Append(st.tokens, NULL),
        buff_size |-> st.buff_size,
        oob |-> st.oob \/ st.pos >= st.buff_size, q |-> ""]
  ELSE
    LET quoted == st.buf[st.token] \in {DQ, SQ}
        q      == st.buf[st.token]
        start  == st.token + 1
        ql     == quote_loop(st.buf, st.save, st.token, q)
        \* start[strlen(start) - 1]; with an empty string at start the
        \* unsigned index wraps and names the byte before start.
        last   == start + strlen(ql.buf, start) - 1
        closed == ql.buf[last] = q
        buf1   == IF quoted THEN [ql.buf EXCEPT ![last] = NUL] ELSE st.buf
        entry  == IF quoted THEN start ELSE st.token
        save1  == IF quoted THEN ql.save ELSE st.save
        nx     == strtok(buf1, save1)
        pos1   == st.pos + 1
        grow   == pos1 >= st.buff_size /\ nx.token # NULL
    IN
    IF quoted /\ ql.fault
    THEN [status |-> "fault", buf |-> ql.buf, tokens |-> st.tokens,
          buff_size |-> st.buff_size, oob |-> st.oob, q |-> q]
    ELSE IF quoted /\ ~closed
    THEN [status |-> "null", buf |-> ql.buf, tokens |-> st.tokens,
          buff_size |-> st.buff_size, oob |-> st.oob, q |-> q]
    ELSE IF grow /\ ~realloc_ok
    THEN [status |-> "nomem", buf |-> nx.buf, tokens |-> Append(st.tokens, entry),
          buff_size |-> st.buff_size, oob |-> st.oob, q |-> ""]
    ELSE tok_loop([buf |-> nx.buf, save |-> nx.save, token |-> nx.token,
                   pos |-> pos1,
                   tokens |-> Append(st.tokens, entry),
                   buff_size |-> IF grow THEN st.buff_size + KUSH_TOK_BUFF_SIZE
                                 ELSE st.buff_size,
                   oob |-> st.oob \/ st.pos >= st.buff_size],
                  realloc_ok)

\* kush_tokenize(user_in) on the memory mem (the line, its NUL, and what lies
\* behind it).  heap says which allocation, if any, fails.  status is "ok"
\* (a token list is returned), "null" (NULL is returned), "nomem" (exit with
\* failure) or "fault" (the scan left the line's buffer).
kush_tokenize(mem, heap) ==
  IF heap = "malloc_fails"
  THEN [status |-> "nomem", buf |-> mem, tokens |-> <<>>,
        buff_size |-> 0, oob |-> FALSE, q |-> ""]
  ELSE LET r == strtok(mem, 1) IN
       tok_loop([buf |-> r.buf, save |-> r.save, token |-> r.token, pos |-> 0,
                 tokens |-> <<>>, buff_size |-> KUSH_TOK_BUFF_SIZE,
                 oob |-> FALSE],
                heap # "realloc_fails")

\* The token strings of a returned list: the C strings its entries point to.
TokenStrings(r) ==
  [i \in 1..(Len(r.tokens) - 1) |-> CStr(r.buf, r.tokens[i])]

\* ------------------------------------------------------------ dispatch
\* char *builtin_cmds[] = { "exit", "cd", "help" };
builtin_cmds == << <<"e", "x", "i", "t">>, <<"c", "d">>, <<"h", "e", "l", "p">> >>

\* kush_num_builtins()
kush_num_builtins == Len(builtin_cmds)

\* A dispatcher whose table scan starts at the second entry.
kush_run_skip_first(buf, args) ==
  IF args[1] = NULL THEN "none"
  ELSE LET hits == {i \in 2..Len(builtin_cmds) : CStr(buf, args[1]) = builtin_cmds[i]} IN
       IF hits = {} THEN "exec"
       ELSE LET i == CHOOSE k \in hits : \A j \in hits : k <= j IN
            <<"exit", "cd", "help">>[i]

\* kush_run(args): what the dispatcher hands the token list to.  "none" for a
\* list whose first slot is NULL, the first builtin whose name strcmp()s
\* equal to args[0], and "exec" (kush_exec) when no builtin matches.
kush_run(buf, args) ==
  IF args[1] = NULL THEN "none"
  ELSE LET hits == {i \in 1..kush_num_builtins : CStr(buf, args[1]) = builtin_cmds[i]} IN
       IF hits = {} THEN "exec"
       ELSE LET i == CHOOSE k \in hits : \A j \in hits : k <= j IN
            <<"exit", "cd", "help">>[i]

\* ---------------------------------------------------------- environment
\* Directories chdir() can enter, and programs execvp() can start.
ExistingDirs == { <<"/">>, <<"d">> }
Programs == { <<"l", "s">> }

\* The lines the read-eval loop is fed.  The last one is a final line that
\* reaches end-of-input without a newline.
LoopLines ==
  { <<LF>>,
    <<"e", "x", "i", "t", LF>>,
    <<"e", "x", "i", "t", SP, "a", LF>>,
    <<"c", "d", LF>>,
    <<"c", "d", SP, "d", LF>>,
    <<"c", "d", SP, "x", LF>>,
    <<"h", "e", "l", "p", LF>>,
    <<"l", "s", LF>>,
    <<"x", "x", LF>>,
    <<DQ, "a", LF>>,
    <<DQ, LF>>,
    <<SQ, "l", "s">> }

\* Sequences over S of length at most n.
SeqsUpTo(S, n) == UNION {[1..k -> S] : k \in 0..n}

CoreChars == {"a", SP, DQ, SQ}
AllChars == {"a", SP, TAB, CR, LF, BEL, DQ, SQ}

\* What may lie in memory behind a line's NUL.
Garbage == SeqsUpTo(CoreChars, MaxGarbage)

\* kush_loop's `int exit;` before its first assignment, and after one.
Unassigned == [assigned |-> FALSE, val |-> 0]
Assigned(v) == [assigned |-> TRUE, val |-> v]

\* The value of a freed or never assigned pointer variable.
NoList == <<>>

VARIABLES
  pc,              \* where the main flow of the shell process stands
  status,          \* "running", or how the shell process ended
  printed_prompt,  \* int printed_prompt
  child_running,   \* int child_running
  exit,            \* kush_loop's local `exit`: its value, once it was assigned
  line,            \* the line getline() returned, as read
  user_in,         \* the memory user_in points to (mutated by strtok)
  tokens,          \* the token list, NoList when kush_tokenize returned NULL
  cwd,             \* the process working directory
  child,           \* the forked child: none, forked, program, exec_failed, zombie
  child_status,    \* the exit status of the child
  nread,           \* lines read so far
  nsig,            \* SIGINTs handled so far
  live,            \* buffers malloc()ed and not yet free()d: lines and token lists
  buff_size,       \* kush_tokenize's buff_size when it last returned a list
  oob,             \* kush_tokenize wrote the list at an index >= its capacity
  act,             \* the step taken last
  out,             \* what the step taken last wrote to stdout and stderr
  pre,             \* the state a signal handler invocation started from
  did,             \* what kush_run invoked for the current line
  handled          \* a handler invocation returned since line 117 last ran

vars == <<pc, status, printed_prompt, child_running, exit, line, user_in, tokens,
          cwd, child, child_status, nread, nsig, live, buff_size, oob, act, out,
          pre, did, handled>>

NoPre == [pc |-> "none", printed_prompt |-> 0, child_running |-> 0,
          user_in |-> <<>>, tokens |-> NoList, nread |-> 0, within |-> "none"]

\* How gethostname() can end: with the name stored, with a truncated name
\* stored (ENAMETOOLONG), or with the buffer left as it was (uninitialised).
GetHostName == {"ok", "truncated", "untouched"}

\* The prompt kush_print_prompt() prints after a successful getcwd():
\* username and hostname as the code selects them.  pw and errcode record
\* what the two lookups returned.
PromptLine(pw_ok, gh) ==
  LET unknown  == "<UNKNOWN>"
      username == IF ~pw_ok THEN unknown ELSE "user"
      errcode  == IF gh = "ok" THEN 0 ELSE -1
      hostname == IF errcode > 0 THEN unknown
                  ELSE CASE gh = "ok" -> "host"
                         [] gh = "truncated" -> "hos"
                         [] gh = "untouched" -> "indeterminate"
  IN [kind |-> "prompt", user |-> username, host |-> hostname, cwd |-> cwd,
      pw |-> pw_ok, errcode |-> errcode]

Msg(k) == [kind |-> k, user |-> "", host |-> "", cwd |-> <<>>,
           pw |-> TRUE, errcode |-> 0]

\* main(): the handler is installed, the help text printed, the loop entered.
Init ==
  /\ pc = "print_prompt"
  /\ status = "running"
  /\ printed_prompt = 0
  /\ child_running = 0
  /\ exit = Unassigned
  /\ line = <<>>
  /\ user_in = <<>>
  /\ tokens = NoList
  /\ cwd = <<"/">>
  /\ child = "none"
  /\ child_status = "none"
  /\ nread = 0
  /\ nsig = 0
  /\ live = [lines |-> 0, lists |-> 0]
  /\ buff_size = 0
  /\ oob = FALSE
  /\ act = "main"
  /\ out = <<Msg("help")>>
  /\ pre = NoPre
  /\ did = <<>>
  /\ handled = FALSE

\* Process exit: exit(code) or the return from main.
Exits(code) == pc' = "exited" /\ status' = code

\* kush_print_prompt(), entry: the test of printed_prompt (line 62).
kush_print_prompt_test ==
  /\ pc = "print_prompt"
  /\ pc' = IF printed_prompt = 0 THEN "getcwd" ELSE "read_line"
  /\ act' = "kush_print_prompt_test"
  /\ out' = <<>>
  /\ pre' = NoPre
  /\ UNCHANGED <<status, printed_prompt, child_running, exit, line, user_in,
                 tokens, cwd, child, child_status, nread, nsig, live, buff_size, oob, did, handled>>

\* kush_print_prompt(), lines 64-77: the lookups and the print, or exit.
kush_print_prompt_print ==
  /\ pc = "getcwd"
  /\ \E cwd_ok, pw_ok \in BOOLEAN, gh \in GetHostName :
       IF cwd_ok
       THEN /\ out' = <<PromptLine(pw_ok, gh)>>
            /\ pc' = "read_line"
            /\ status' = status
       ELSE /\ out' = <<>>
            /\ Exits("failure")
  /\ act' = "kush_print_prompt_print"
  /\ pre' = NoPre
  /\ UNCHANGED <<printed_prompt, child_running, exit, line, user_in,
                 tokens, cwd, child, child_status, nread, nsig, live, buff_size, oob, did, handled>>

\* getline() returned a line without a newline: the input ended behind it.
InputEnded == line # <<>> /\ line[Len(line)] # LF

\* kush_read_line(), line 104: getline() returns a line.
kush_read_line_got ==
  /\ pc = "read_line"
  /\ nread < MaxLines
  /\ ~InputEnded
  /\ \E l \in LoopLines :
       /\ line' = l
       /\ user_in' = l \o <<NUL>>
  /\ nread' = nread + 1
  /\ live' = [live EXCEPT !.lines = @ + 1]
  /\ pc' = "read_reset"
  /\ act' = "kush_read_line_got"
  /\ out' = <<>>
  /\ pre' = NoPre
  /\ did' = <<>>
  /\ UNCHANGED <<status, printed_prompt, child_running, exit, tokens, cwd,
                 child, child_status, nsig, buff_size, oob, handled>>

\* kush_read_line(), lines 104-114: getline() fails, at end-of-input or not.
kush_read_line_fail ==
  /\ pc = "read_line"
  /\ \E eof \in (IF InputEnded THEN {TRUE} ELSE BOOLEAN) :
       IF eof THEN out' = <<>> /\ Exits("success")
       ELSE out' = <<Msg("err_read")>> /\ Exits("failure")
  /\ act' = "kush_read_line_fail"
  /\ pre' = NoPre
  /\ UNCHANGED <<printed_prompt, child_running, exit, line, user_in, tokens,
                 cwd, child, child_status, nread, nsig, live, buff_size, oob, did, handled>>

\* kush_read_line(), line 117: printed_prompt = 0.
kush_read_line_reset ==
  /\ pc = "read_reset"
  /\ printed_prompt' = 0
  /\ handled' = FALSE
  /\ pc' = "tokenize"
  /\ act' = "kush_read_line_reset"
  /\ out' = <<>>
  /\ pre' = NoPre
  /\ UNCHANGED <<status, child_running, exit, line, user_in, tokens, cwd,
                 child, child_status, nread, nsig, live, buff_size, oob, did>>

\* kush_tokenize overwrites the NUL that ends the line in buf (line 149), so
\* that its scan goes on into the memory behind the line.
ReadsBehind(buf, heap) ==
  kush_tokenize(buf \o <<NUL>>, heap).buf[Len(buf)] # NUL

\* kush_loop(), line 294: tokens = kush_tokenize(user_in).  What lies behind
\* the line's NUL is indeterminate and is fixed when the call reads it; it is
\* kept in user_in only if the call overwrote that NUL and so reached it.  A
\* scan that leaves the modelled memory goes on through memory the model
\* does not hold: the process faults, or a NUL is met and NULL is returned.
\* A write behind the end of the token list lands in memory the list does
\* not own: the allocator's slack absorbs it, or the process faults.
tokenize ==
  /\ pc = "tokenize"
  /\ \E heap \in {"ok", "malloc_fails", "realloc_fails"} :
     \E g \in (IF ReadsBehind(user_in, heap) THEN Garbage ELSE {<<>>}) :
       LET r == kush_tokenize(user_in \o g \o <<NUL>>, heap) IN
       /\ user_in' = IF r.buf[Len(user_in)] = NUL
                      THEN SubSeq(r.buf, 1, Len(user_in)) ELSE r.buf
       /\ buff_size' = r.buff_size
       /\ oob' = r.oob
       /\ \E segv \in (IF r.status = "fault" \/ r.oob THEN BOOLEAN ELSE {FALSE}) :
          CASE segv ->
                 /\ tokens' = NoList
                 /\ live' = live
                 /\ did' = did
                 /\ out' = <<>>
                 /\ Exits("fault")
            [] ~segv /\ r.status = "ok" ->
                 /\ tokens' = r.tokens
                 /\ live' = [live EXCEPT !.lists = @ + 1]
                 /\ did' = did
                 /\ out' = <<>>
                 /\ pc' = "run"
                 /\ status' = status
            [] ~segv /\ r.status \in {"null", "fault"} ->
                 /\ tokens' = NoList
                 /\ live' = [live EXCEPT !.lists = @ + 1]
                 /\ did' = <<"tokenize_failed">>
                 /\ out' = <<Msg(IF r.q = DQ THEN "err_missing_dq" ELSE "err_missing_sq")>>
                 /\ pc' = "while"
                 /\ status' = status
            [] ~segv /\ r.status = "nomem" ->
                 /\ tokens' = NoList
                 /\ live' = live
                 /\ did' = did
                 /\ out' = <<Msg("err_alloc")>>
                 /\ Exits("failure")
  /\ act' = "tokenize"
  /\ pre' = NoPre
  /\ UNCHANGED <<printed_prompt, child_running, exit, line, cwd, child,
                 child_status, nread, nsig, handled>>

\* An exit builtin that returns the continue value.
kush_exit_continue(args) == 0

\* int kush_exit(char **args): the value returned.
kush_exit(args) == 1

\* int kush_help(char **args): the value returned.
kush_help(args) == 0

\* A cd whose failed chdir() still moves the working directory.
kush_cd_moves_on_failure(buf, args) ==
  IF args[2] = NULL
  THEN [cwd |-> cwd, out |-> <<Msg("err_cd_argument")>>, ret |-> 0]
  ELSE [cwd |-> CStr(buf, args[2]),
        out |-> IF CStr(buf, args[2]) \in ExistingDirs THEN <<>>
                ELSE <<Msg("err_chdir")>>,
        ret |-> 0]

\* int kush_cd(char **args): the working directory afterwards, what is
\* reported, and the value returned.
kush_cd(buf, args) ==
  IF args[2] = NULL
  THEN [cwd |-> cwd, out |-> <<Msg("err_cd_argument")>>, ret |-> 0]
  ELSE IF CStr(buf, args[2]) \in ExistingDirs
  THEN [cwd |-> CStr(buf, args[2]), out |-> <<>>, ret |-> 0]
  ELSE [cwd |-> cwd, out |-> <<Msg("err_chdir")>>, ret |-> 0]

\* An executor whose parent branch is taken for every pid that is not 0.
kush_exec_parent_always_waits(pid) == "set_child_running"

\* kush_exec(), lines 263-268: where the parent goes after fork() returned
\* pid (-1 for a failed fork, the child's pid otherwise).
kush_exec_parent(pid) ==
  IF pid < 0 THEN "free" ELSE "set_child_running"

\* kush_exec(), lines 258-262, in the child: execvp() either replaces the
\* image, or returns and the child exits with EXIT_FAILURE.
kush_exec_child(execvp_ok) ==
  IF execvp_ok THEN "program" ELSE "exec_failed"

\* kush_run(), line 275: a list whose first slot is NULL.
kush_run_none ==
  /\ pc = "run"
  /\ kush_run(user_in, tokens) = "none"
  /\ exit' = Assigned(0)
  /\ did' = Append(did, "none")
  /\ pc' = "free"
  /\ act' = "kush_run_none"
  /\ out' = <<>>
  /\ pre' = NoPre
  /\ UNCHANGED <<status, printed_prompt, child_running, line, user_in, tokens,
                 cwd, child, child_status, nread, nsig, live, buff_size, oob, handled>>

\* kush_run() calling a builtin (line 278); exit = its return value.
kush_run_builtin ==
  /\ pc = "run"
  /\ LET b == kush_run(user_in, tokens) IN
     /\ b \in {"exit", "cd", "help"}
     /\ did' = Append(did, b)
     /\ act' = b
     /\ CASE b = "exit" -> exit' = Assigned(kush_exit(tokens)) /\ out' = <<>> /\ cwd' = cwd
          [] b = "help" -> exit' = Assigned(kush_help(tokens)) /\ out' = <<Msg("help")>> /\ cwd' = cwd
          [] b = "cd"   -> LET r == kush_cd(user_in, tokens) IN
                           exit' = Assigned(r.ret) /\ out' = r.out /\ cwd' = r.cwd
  /\ pc' = "free"
  /\ pre' = NoPre
  /\ UNCHANGED <<status, printed_prompt, child_running, line, user_in, tokens,
                 child, child_status, nread, nsig, live, buff_size, oob, handled>>

\* kush_run() calling kush_exec() (line 281); fork() fails (line 263).
kush_exec_fork_fails ==
  /\ pc = "run"
  /\ kush_run(user_in, tokens) = "exec"
  /\ did' = Append(did, "exec")
  /\ pc' = kush_exec_parent(-1)
  /\ exit' = IF kush_exec_parent(-1) = "free" THEN Assigned(0) ELSE exit
  /\ out' = <<Msg("err_fork")>>
  /\ act' = "kush_exec_fork_fails"
  /\ pre' = NoPre
  /\ UNCHANGED <<status, printed_prompt, child_running, line, user_in, tokens,
                 cwd, child, child_status, nread, nsig, live, buff_size, oob, handled>>

\* kush_run() calling kush_exec() (line 281); fork() succeeds (line 255).
kush_exec_fork ==
  /\ pc = "run"
  /\ kush_run(user_in, tokens) = "exec"
  /\ did' = Append(did, "exec")
  /\ child' = "forked"
  /\ child_status' = "none"
  /\ pc' = kush_exec_parent(1)
  /\ out' = <<>>
  /\ act' = "kush_exec_fork"
  /\ pre' = NoPre
  /\ UNCHANGED <<status, printed_prompt, child_running, exit, line, user_in,
                 tokens, cwd, nread, nsig, live, buff_size, oob, handled>>

\* kush_exec(), line 265, parent: child_running = 1.
kush_exec_set_running ==
  /\ pc = "set_child_running"
  /\ child_running' = 1
  /\ pc' = "waitpid"
  /\ act' = "kush_exec_set_running"
  /\ out' = <<>>
  /\ pre' = NoPre
  /\ UNCHANGED <<status, printed_prompt, exit, line, user_in, tokens, cwd,
                 child, child_status, nread, nsig, live, buff_size, oob, did, handled>>

\* kush_exec(), line 266, parent: waitpid() returns once the child has ended;
\* the child is reaped and its exit status discarded.
kush_exec_waitpid ==
  /\ pc = "waitpid"
  /\ child = "zombie"
  /\ child' = "none"
  /\ child_status' = "none"
  /\ pc' = "clear_child_running"
  /\ act' = "kush_exec_waitpid"
  /\ out' = <<>>
  /\ pre' = NoPre
  /\ UNCHANGED <<status, printed_prompt, child_running, exit, line, user_in,
                 tokens, cwd, nread, nsig, live, buff_size, oob, did, handled>>

\* kush_exec(), lines 267-270, parent: child_running = 0; return 0.
kush_exec_clear_running ==
  /\ pc = "clear_child_running"
  /\ child_running' = 0
  /\ exit' = Assigned(0)
  /\ pc' = "free"
  /\ act' = "kush_exec_clear_running"
  /\ out' = <<>>
  /\ pre' = NoPre
  /\ UNCHANGED <<status, printed_prompt, line, user_in, tokens, cwd, child,
                 child_status, nread, nsig, live, buff_size, oob, did, handled>>

\* The child, line 258: execvp(args[0], args).
child_execvp ==
  /\ child = "forked"
  /\ child' = kush_exec_child(CStr(user_in, tokens[1]) \in Programs)
  /\ act' = "child_execvp"
  /\ out' = <<>>
  /\ pre' = NoPre
  /\ UNCHANGED <<pc, status, printed_prompt, child_running, exit, line, user_in,
                 tokens, cwd, child_status, nread, nsig, live, buff_size, oob, did, handled>>

\* The child, lines 261-262: perror(); exit(EXIT_FAILURE).
child_exec_failed ==
  /\ child = "exec_failed"
  /\ child' = "zombie"
  /\ child_status' = "failure"
  /\ act' = "child_exec_failed"
  /\ out' = <<Msg("err_exec")>>
  /\ pre' = NoPre
  /\ UNCHANGED <<pc, status, printed_prompt, child_running, exit, line, user_in,
                 tokens, cwd, nread, nsig, live, buff_size, oob, did, handled>>

\* The program the child became ends, with some status.
child_program_ends ==
  /\ child = "program"
  /\ child' = "zombie"
  /\ \E st \in {"success", "failure"} : child_status' = st
  /\ act' = "child_program_ends"
  /\ out' = <<>>
  /\ pre' = NoPre
  /\ UNCHANGED <<pc, status, printed_prompt, child_running, exit, line, user_in,
                 tokens, cwd, nread, nsig, live, buff_size, oob, did, handled>>

\* kush_loop(), lines 301-302: free(user_in); free(tokens).
free_buffers ==
  /\ pc = "free"
  /\ live' = [lines |-> live.lines - 1, lists |-> live.lists - 1]
  /\ pc' = "while"
  /\ act' = "free_buffers"
  /\ out' = <<>>
  /\ pre' = NoPre
  /\ UNCHANGED <<status, printed_prompt, child_running, exit, line, user_in,
                 tokens, cwd, child, child_status, nread, nsig, buff_size, oob,
                 did, handled>>

\* kush_loop(), line 303: while (!exit), reached after the frees and by the
\* continue of line 296.  Reading exit before it was ever assigned yields an
\* indeterminate value.  When the loop ends main returns EXIT_SUCCESS.
loop_while ==
  /\ pc = "while"
  /\ \E v \in (IF exit.assigned THEN {exit.val} ELSE {0, 1}) :
       IF v = 0
       THEN pc' = "print_prompt" /\ status' = status
       ELSE Exits("success")
  /\ act' = "loop_while"
  /\ out' = <<>>
  /\ pre' = NoPre
  /\ UNCHANGED <<printed_prompt, child_running, exit, line, user_in, tokens,
                 cwd, child, child_status, nread, nsig, live, buff_size, oob, did, handled>>

\* kush_print_prompt() as one call: what it prints and whether it exits.
kush_print_prompt(pp, cwd_ok, pw_ok, gh) ==
  IF pp = 0
  THEN IF cwd_ok
       THEN [out |-> <<PromptLine(pw_ok, gh)>>, exits |-> FALSE]
       ELSE [out |-> <<>>, exits |-> TRUE]
  ELSE [out |-> <<>>, exits |-> FALSE]

\* A handler whose prompt print exits although the lookup succeeded.
sig_handler_body_exits(cwd_ok, pw_ok, gh) ==
  LET first == IF child_running = 0 THEN Msg("hint") ELSE Msg("blank")
      p     == kush_print_prompt(0, cwd_ok, pw_ok, gh)
  IN [out            |-> <<first>> \o p.out,
      exits          |-> TRUE,
      printed_prompt |-> 0,
      child_running  |-> child_running]

\* A handler that prints the exit hint whether or not a child runs.
sig_handler_body_hint(cwd_ok, pw_ok, gh) ==
  LET p == kush_print_prompt(0, cwd_ok, pw_ok, gh)
  IN [out            |-> <<Msg("hint")>> \o p.out,
      exits          |-> p.exits,
      printed_prompt |-> IF p.exits THEN 0 ELSE 1,
      child_running  |-> child_running]

\* A handler that does not clear printed_prompt before it prints.
sig_handler_body_no_clear(cwd_ok, pw_ok, gh) ==
  LET first == IF child_running = 0 THEN Msg("hint") ELSE Msg("blank")
      p     == kush_print_prompt(printed_prompt, cwd_ok, pw_ok, gh)
  IN [out            |-> <<first>> \o p.out,
      exits          |-> p.exits,
      printed_prompt |-> IF p.exits THEN 0 ELSE 1,
      child_running  |-> child_running]

\* A handler that returns without setting printed_prompt back to true.
sig_handler_body_no_set(cwd_ok, pw_ok, gh) ==
  LET first == IF child_running = 0 THEN Msg("hint") ELSE Msg("blank")
      p     == kush_print_prompt(0, cwd_ok, pw_ok, gh)
  IN [out            |-> <<first>> \o p.out,
      exits          |-> p.exits,
      printed_prompt |-> 0,
      child_running  |-> child_running]

\* A handler that clears child_running.
sig_handler_body_clears_child(cwd_ok, pw_ok, gh) ==
  LET first == IF child_running = 0 THEN Msg("hint") ELSE Msg("blank")
      p     == kush_print_prompt(0, cwd_ok, pw_ok, gh)
  IN [out            |-> <<first>> \o p.out,
      exits          |-> p.exits,
      printed_prompt |-> IF p.exits THEN 0 ELSE 1,
      child_running  |-> 0]

\* sig_handler(SIGINT), lines 85-96: what it prints, the flags it leaves, and
\* whether the prompt print inside it exits the process.
sig_handler_body(cwd_ok, pw_ok, gh) ==
  LET first == IF child_running = 0 THEN Msg("hint") ELSE Msg("blank")
      p     == kush_print_prompt(0, cwd_ok, pw_ok, gh)
  IN [out            |-> <<first>> \o p.out,
      exits          |-> p.exits,
      printed_prompt |-> IF p.exits THEN 0 ELSE 1,
      child_running  |-> child_running]

\* The library calls the step pending at the main flow's position makes that
\* are not safe to interrupt by a handler using stdio or the allocator:
\* "stdout" for a buffered write to stdout (printf, puts, fflush), "alloc" for
\* an allocation (malloc, realloc, getline, getpwuid), "release" for free().
LibcCalls ==
  CASE pc = "getcwd"    -> {"alloc", "stdout"}
    [] pc = "read_line" -> {"alloc", "release"}
    [] pc = "tokenize"  -> {"alloc"}
    [] pc = "run"       -> IF kush_run(user_in, tokens) = "help" THEN {"stdout"} ELSE {}
    [] pc = "free"      -> {"release"}
    [] OTHER            -> {}

\* How a handler invocation can end that interrupted the main flow within the
\* library call `within`: it returns (or exits in its prompt print), and where
\* one of its own calls re-enters the interrupted library state (its puts
\* inside a stdout write, its getpwuid inside the allocator) the behaviour is
\* undefined: the process may also hang or fault.
HandlerEnds(within, cwd_ok) ==
  IF within = "stdout" \/ (within \in {"alloc", "release"} /\ cwd_ok)
  THEN {"returns", "hung", "fault"}
  ELSE {"returns"}

\* SIGINT is delivered to the shell process, at the main flow's position or
\* within one of the library calls of the step pending there; the handler
\* runs to its end before the main flow continues where it was.
sig_handler ==
  /\ status = "running"
  /\ nsig < MaxSigs
  /\ nsig' = nsig + 1
  /\ \E cwd_ok, pw_ok \in BOOLEAN, gh \in GetHostName,
        within \in {"none"} \cup LibcCalls :
       \E ends \in HandlerEnds(within, cwd_ok) :
       LET h == sig_handler_body(cwd_ok, pw_ok, gh) IN
       /\ pre' = [pc |-> pc, printed_prompt |-> printed_prompt,
                  child_running |-> child_running, user_in |-> user_in,
                  tokens |-> tokens, nread |-> nread, within |-> within]
       /\ child_running' = h.child_running
       /\ IF ends = "returns"
          THEN /\ out' = h.out
               /\ printed_prompt' = h.printed_prompt
               /\ handled' = (handled \/ ~h.exits)
               /\ IF h.exits THEN Exits("failure") ELSE pc' = pc /\ status' = status
          ELSE /\ out' = <<Msg("undefined")>>
               /\ printed_prompt' = IF within = "stdout" THEN printed_prompt ELSE 0
               /\ handled' = handled
               /\ pc' = IF ends = "hung" THEN "hung" ELSE "exited"
               /\ status' = ends
  /\ act' = "sig_handler"
  /\ UNCHANGED <<exit, line, user_in, tokens, cwd, child, child_status, nread,
                 live, buff_size, oob, did>>

\* SIGINT is delivered to the forked child before its execvp(): the child
\* inherited the handler and its own copy of child_running, which is 0.  It
\* prints the hint and the prompt, or exits in the prompt print.
child_sig_handler ==
  /\ child = "forked"
  /\ nsig < MaxSigs
  /\ nsig' = nsig + 1
  /\ \E cwd_ok, pw_ok \in BOOLEAN, gh \in GetHostName :
       LET p == kush_print_prompt(0, cwd_ok, pw_ok, gh) IN
       /\ out' = <<Msg("hint")>> \o p.out
       /\ child' = IF p.exits THEN "zombie" ELSE child
       /\ child_status' = IF p.exits THEN "failure" ELSE child_status
  /\ act' = "child_sig_handler"
  /\ pre' = NoPre
  /\ UNCHANGED <<pc, status, printed_prompt, child_running, exit, line, user_in,
                 tokens, cwd, nread, live, buff_size, oob, did, handled>>

Next ==
  \/ kush_print_prompt_test
  \/ kush_print_prompt_print
  \/ kush_read_line_got
  \/ kush_read_line_fail
  \/ kush_read_line_reset
  \/ tokenize
  \/ kush_run_none
  \/ kush_run_builtin
  \/ kush_exec_fork_fails
  \/ kush_exec_fork
  \/ kush_exec_set_running
  \/ kush_exec_waitpid
  \/ kush_exec_clear_running
  \/ child_execvp
  \/ child_exec_failed
  \/ child_program_ends
  \/ free_buffers
  \/ loop_while
  \/ sig_handler
  \/ child_sig_handler

Spec == Init /\ [][Next]_vars

\* ------------------------------------------------ tokenizer on its own
\* Quoted lines with runs of delimiters inside the quotes: q a <run> b <d> q.
QuotedLines ==
  {<<q, "a">> \o r \o <<"b">> \o d \o <<q>> :
     q \in {DQ, SQ}, r \in SeqsUpTo(KUSH_TOK_DELIM, MaxRun),
     d \in {<<>>, <<SP>>, <<TAB>>}}

\* The lines the tokenizer is checked on.
TokLines ==
  SeqsUpTo(CoreChars, MaxLen) \cup SeqsUpTo(AllChars, MaxShort) \cup QuotedLines

\* The loop at line 294 with an arbitrary line just read.
InitTok ==
  /\ pc = "tokenize"
  /\ status = "running"
  /\ printed_prompt = 0
  /\ child_running = 0
  /\ exit = Unassigned
  /\ line \in TokLines
  /\ user_in = line \o <<NUL>>
  /\ tokens = NoList
  /\ cwd = <<"/">>
  /\ child = "none"
  /\ child_status = "none"
  /\ nread = 1
  /\ nsig = 0
  /\ live = [lines |-> 1, lists |-> 0]
  /\ buff_size = 0
  /\ oob = FALSE
  /\ act = "kush_read_line_reset"
  /\ out = <<>>
  /\ pre = NoPre
  /\ did = <<>>
  /\ handled = FALSE

NextTok == tokenize

SpecTok == InitTok /\ [][NextTok]_vars

\* ------------------------------------------- tokenizer on long lines
\* The line of n one-character tokens, each followed by a space, and the
\* newline.
PlainLine(n) == [i \in 1..(2 * n) |-> IF i % 2 = 1 THEN "a" ELSE SP] \o <<LF>>

LongLines == {PlainLine(n) : n \in 0..MaxTokens}

\* The loop at line 294 with a line of up to MaxTokens tokens just read.
InitLong ==
  /\ pc = "tokenize"
  /\ status = "running"
  /\ printed_prompt = 0
  /\ child_running = 0
  /\ exit = Unassigned
  /\ line \in LongLines
  /\ user_in = line \o <<NUL>>
  /\ tokens = NoList
  /\ cwd = <<"/">>
  /\ child = "none"
  /\ child_status = "none"
  /\ nread = 1
  /\ nsig = 0
  /\ live = [lines |-> 1, lists |-> 0]
  /\ buff_size = 0
  /\ oob = FALSE
  /\ act = "kush_read_line_reset"
  /\ out = <<>>
  /\ pre = NoPre
  /\ did = <<>>
  /\ handled = FALSE

NextLong == tokenize

SpecLong == InitLong /\ [][NextLong]_vars

\* ============================================================== claims
\* The delimiter characters as the specification lists them: space, tab,
\* carriage return, newline, bell.
Delimiters == {" ", "\t", "\r", "\n", "\\a"}
Quotes == {"\"", "'"}

\* The positions at which a maximal delimiter-free run of l starts.
RunStarts(l) ==
  {i \in 1..Len(l) : l[i] \notin Delimiters /\ (i = 1 \/ l[i - 1] \in Delimiters)}

\* The last position of the run of l that starts at i.
RunEnd(l, i) ==
  CHOOSE j \in i..Len(l) :
    /\ \A k \in i..j : l[k] \notin Delimiters
    /\ (j = Len(l) \/ l[j + 1] \in Delimiters)

\* The start of the k-th run of l, counted from the left.
NthRunStart(l, k) ==
  CHOOSE i \in RunStarts(l) : Cardinality({x \in RunStarts(l) : x < i}) = k - 1

NoQuote(l) == \A i \in 1..Len(l) : l[i] \notin Quotes

\* The first run of l, when it begins with a quote character.
FirstRun(l) == CHOOSE i \in RunStarts(l) : \A x \in RunStarts(l) : i <= x
OpensQuoted(l) == RunStarts(l) # {} /\ l[FirstRun(l)] \in Quotes

\* The positions behind position o that hold the quote character of o as the
\* last character of a run.
Closings(l, o) ==
  {c \in (o + 1)..Len(l) : l[c] = l[o] /\ (c = Len(l) \/ l[c + 1] \in Delimiters)}

\* kush_tokenize did not return: the allocation of the token list failed.
AllocationFailed ==
  pc = "exited" /\ status = "failure" /\ out = <<Msg("err_alloc")>>

\* C1: for a line without quote characters kush_tokenize returns the list of
\* the line's maximal delimiter-free runs, left to right, followed by NULL at
\* index n (slot 0 when the line has no run).
C1_PlainLineRuns ==
  (act = "tokenize" /\ NoQuote(line)) =>
     \/ AllocationFailed
     \/ /\ pc = "run"
        /\ LET n == Cardinality(RunStarts(line)) IN
           /\ Len(tokens) = n + 1
           /\ tokens[n + 1] = NULL
           /\ \A k \in 1..n :
                LET i == NthRunStart(line, k) IN
                /\ tokens[k] = i
                /\ CStr(user_in, tokens[k]) = SubSeq(line, i, RunEnd(line, i))

\* C1 witness: a plain line with a leading delimiter and two runs was split.
C1_Witness ==
  /\ act = "tokenize" /\ pc = "run"
  /\ NoQuote(line) /\ Len(line) > 0 /\ line[1] \in Delimiters
  /\ Len(tokens) = 3

\* C2, as claimed, for the run that opens the line: when the run begins with a
\* quote character and a later position holds the same character as the last
\* character of a run, one token spans from behind the opening quote to
\* before the first such closing quote, and what follows is tokenized apart.
\* (A list is returned unless a quote character behind the span is the
\* reason it is not.)
C2_QuotedSpanAsClaimed ==
  (act = "tokenize" /\ OpensQuoted(line) /\ Closings(line, FirstRun(line)) # {}) =>
     LET o == FirstRun(line)
         c == CHOOSE x \in Closings(line, o) : \A y \in Closings(line, o) : x <= y
     IN /\ \/ pc = "run"
           \/ AllocationFailed
           \/ \E i \in (c + 1)..Len(line) : line[i] \in Quotes
        /\ pc = "run" =>
             /\ tokens[1] = o + 1
             /\ strlen(user_in, tokens[1]) = c - o - 1
             /\ tokens[2] # NULL => tokens[2] > c
             /\ (tokens[2] = NULL) = ({x \in RunStarts(line) : x > c} = {})

\* C3, as claimed, for the run that opens the line: when the run begins with a
\* quote character that does not occur again behind it, kush_tokenize returns
\* NULL and no token list.
C3_UnclosedFailsAsClaimed ==
  (act = "tokenize" /\ OpensQuoted(line)
     /\ \A i \in (FirstRun(line) + 1)..Len(line) : line[i] # line[FirstRun(line)]) =>
     \/ AllocationFailed
     \/ pc = "while" /\ tokens = NoList /\ did = <<"tokenize_failed">>

\* C4, as claimed: after a failed tokenization no builtin runs, no child is
\* forked, and the loop condition does not end the loop, whatever came before.
C4_FailedLineContinuesAsClaimed ==
  did = <<"tokenize_failed">> =>
     /\ child = "none"
     /\ act \notin {"exit", "cd", "help", "kush_exec_fork", "kush_exec_fork_fails"}
     /\ ~(act = "loop_while" /\ pc = "exited")

\* The handler interrupted the main flow within a library call that one of
\* its own calls re-enters, and the process hung or faulted in it.
HandlerUndefined ==
  /\ act = "sig_handler" /\ pre.within # "none"
  /\ status \in {"hung", "fault"} /\ pc \in {"hung", "exited"}

\* C5, as claimed: once exit was dispatched the process ends with success.
C5_ExitEndsWithSuccessAsClaimed ==
  (did = <<"exit">> /\ pc = "exited") => status = "success"

\* C5, amended: dispatching a line whose first token is exit makes kush_run
\* return 1, after which the loop only frees and tests its condition and the
\* process ends, with success unless a SIGINT handled on the way failed its
\* working-directory lookup or interrupted free() and re-entered the
\* allocator; every other dispatch returns 0.
C5_ExitTerminates ==
  /\ did = <<"exit">> =>
       /\ exit = Assigned(1)
       /\ pc \in {"free", "while", "exited", "hung"}
       /\ pc \in {"exited", "hung"} =>
            \/ status = "success"
            \/ status = "failure" /\ act = "sig_handler" /\ Len(out) = 1
            \/ HandlerUndefined /\ pre.within = "release"
  /\ (pc = "free" /\ did # <<"exit">>) => exit = Assigned(0)

\* C5 witness: exit with a further argument was dispatched and the process
\* ended with success.
C5_Witness ==
  /\ did = <<"exit">>
  /\ line = <<"e", "x", "i", "t", " ", "a", "\n">>
  /\ pc = "exited" /\ status = "success"

\* What the claim says dispatch does for a token list.
ExpectedDispatch(buf, list) ==
  IF list[1] = NULL THEN "none"
  ELSE LET first == CStr(buf, list[1]) IN
       IF first = <<"e", "x", "i", "t">> THEN "exit"
       ELSE IF first = <<"c", "d">> THEN "cd"
       ELSE IF first = <<"h", "e", "l", "p">> THEN "help"
       ELSE "exec"

\* C6: for a tokenized line dispatch does exactly one thing: nothing for an
\* empty list, the builtin named by the first token, or one fork; a child
\* exists only for a line that was handed to the executor.
C6_OneDispatchPerLine ==
  /\ Len(did) <= 1
  /\ pc \in {"free", "set_child_running", "waitpid", "clear_child_running"} =>
       /\ Len(did) = 1
       /\ did[1] = ExpectedDispatch(user_in, tokens)
  /\ child # "none" => did = <<"exec">>
  /\ act \in {"exit", "cd", "help", "kush_run_none"} => child = "none"

\* C6 witness: an external command was forked once and is waited for.
C6_Witness ==
  did = <<"exec">> /\ pc = "waitpid" /\ child = "program"

\* C7: a failed fork leaves the parent unblocked with child_running false and
\* the continue value; a child whose execvp failed exits with failure and is
\* never anything but the child of kush_exec; the parent that reaped it
\* returns the continue value and the loop goes on to the next prompt.
C7_FailedLaunchContinues ==
  /\ act = "kush_exec_fork_fails" =>
       /\ pc = "free" /\ status = "running"
       /\ child_running = 0 /\ child = "none" /\ exit = Assigned(0)
  /\ pc \in {"set_child_running", "waitpid"} => child # "none"
  /\ act = "child_exec_failed" => child = "zombie" /\ child_status = "failure"
  /\ child \in {"none", "forked", "program", "exec_failed", "zombie"}
  /\ act = "kush_exec_clear_running" =>
       /\ pc = "free" /\ status = "running"
       /\ child_running = 0 /\ child = "none" /\ exit = Assigned(0)
  /\ (act = "loop_while" /\ did = <<"exec">>) =>
       pc = "print_prompt" /\ status = "running"

\* C7 witness: the child of an unknown command failed to launch, was reaped,
\* and the loop went back to the prompt.
C7_Witness ==
  /\ act = "loop_while" /\ pc = "print_prompt"
  /\ did = <<"exec">> /\ child = "none" /\ child_status = "none"
  /\ line = <<"x", "x", "\n">>

\* The pcs at which the loop is about to enter, or blocked in, the line read.
AwaitingInput == {"print_prompt", "getcwd", "read_line"}

\* C8, as claimed: a SIGINT handled while the loop awaits input never ends
\* the shell.
C8_SigintNeverTerminatesAsClaimed ==
  (act = "sig_handler" /\ pre.pc \in AwaitingInput) =>
     pc = pre.pc /\ status = "running"

\* C8, amended: a SIGINT handled while the loop awaits input leaves the line
\* buffer, the token list, child_running and the input consumed so far as
\* they were, and the main flow where it was, so the pending read returns the
\* line it would have returned; the shell ends only if the handler's own
\* prompt print fails its working-directory lookup, or if the handler
\* interrupted a stdio or allocator call of the main flow and re-entered it.
C8_SigintKeepsRead ==
  (act = "sig_handler" /\ pre.pc \in AwaitingInput) =>
     /\ user_in = pre.user_in
     /\ tokens = pre.tokens
     /\ child_running = pre.child_running
     /\ nread = pre.nread
     /\ \/ pc = pre.pc /\ status = "running" /\ out[Len(out)].kind = "prompt"
        \/ pc = "exited" /\ status = "failure" /\ out[Len(out)].kind # "prompt"
        \/ HandlerUndefined

\* C8 witness: a SIGINT was handled in the blocked read of the second line
\* and the shell is still in that read.
C8_Witness ==
  /\ act = "sig_handler" /\ pre.pc = "read_line"
  /\ pc = "read_line" /\ status = "running" /\ nread = 1

\* C9, as claimed: handled while a child runs, the handler prints a blank
\* line only.
C9_BlankLineOnlyAsClaimed ==
  (act = "sig_handler" /\ pre.child_running = 1) => out = <<Msg("blank")>>

\* C9, amended: handled while a child runs, the handler prints a blank line
\* in place of the exit hint and then reprints the prompt as in the other
\* branch (or exits when the working-directory lookup fails).
C9_BlankLineThenPrompt ==
  (act = "sig_handler" /\ pre.child_running = 1) =>
     /\ out[1] = Msg("blank")
     /\ \A i \in 1..Len(out) : out[i].kind # "hint"
     /\ \/ Len(out) = 2 /\ out[2].kind = "prompt" /\ status = "running"
        \/ Len(out) = 1 /\ pc = "exited" /\ status = "failure"

\* C9 witness: a SIGINT was handled while the parent waited for its child.
C9_Witness ==
  /\ act = "sig_handler" /\ pre.child_running = 1 /\ pre.pc = "waitpid"
  /\ Len(out) = 2

\* C10, as claimed: handled while no child runs, the handler prints the hint
\* and exactly one prompt and returns with printed_prompt true.
C10_HintAndPromptAsClaimed ==
  (act = "sig_handler" /\ pre.child_running = 0) =>
     /\ Len(out) = 2 /\ out[1] = Msg("hint") /\ out[2].kind = "prompt"
     /\ printed_prompt = 1

\* C10, amended: handled while no child runs and not within a stdio or
\* allocator call of the main flow that it re-enters, the handler prints the
\* hint and then, unless the working-directory lookup fails and ends the
\* process, exactly one prompt whatever printed_prompt was, and returns with
\* printed_prompt true; from a handler's return until line 117 next runs
\* printed_prompt stays true and a prompt-print call the loop starts prints
\* nothing.
C10_HintAndPrompt ==
  /\ (act = "sig_handler" /\ pre.child_running = 0 /\ ~HandlerUndefined) =>
       /\ out[1] = Msg("hint")
       /\ \/ /\ Len(out) = 2 /\ out[2].kind = "prompt"
             /\ printed_prompt = 1 /\ status = "running" /\ pc = pre.pc
          \/ Len(out) = 1 /\ pc = "exited" /\ status = "failure"
  /\ (handled /\ status = "running") => printed_prompt = 1
  /\ (handled /\ act = "kush_print_prompt_test") => pc = "read_line" /\ out = <<>>

\* C10 witness: the handler printed the hint and a prompt although
\* printed_prompt was already true when it was entered.
C10_Witness ==
  /\ act = "sig_handler" /\ pre.child_running = 0 /\ pre.printed_prompt = 1
  /\ Len(out) = 2 /\ out[2].kind = "prompt" /\ printed_prompt = 1

\* C11, as claimed: when a normally completed iteration returns to the
\* prompt print, printed_prompt is false whatever SIGINTs were handled.
C11_PromptFlagFalseAsClaimed ==
  (act = "loop_while" /\ pc = "print_prompt" /\ did # <<"tokenize_failed">>) =>
     printed_prompt = 0

\* C11, amended: when an iteration returns to the prompt print,
\* printed_prompt is false exactly if no SIGINT handler returned since the
\* iteration's line read reset it (line 117); then the next prompt-print call
\* goes on to print a prompt.  If a handler returned since, printed_prompt is
\* true and the next prompt-print call prints nothing.
C11_PromptFlagAtLoopReturn ==
  /\ (act = "loop_while" /\ pc = "print_prompt") =>
       printed_prompt = (IF handled THEN 1 ELSE 0)
  /\ act = "kush_print_prompt_test" =>
       pc = (IF handled THEN "read_line" ELSE "getcwd")

\* C11 witness: an iteration that ran an external command returned to the
\* prompt print with printed_prompt true, a SIGINT having been handled
\* while the parent waited for the child.
C11_Witness ==
  /\ act = "loop_while" /\ pc = "print_prompt" /\ did = <<"exec">>
  /\ handled /\ printed_prompt = 1

\* C12: a cd without args[1], or whose chdir fails, leaves the working
\* directory as it was and reports an error; a cd whose chdir succeeds makes
\* args[1] the working directory and reports nothing; in every case cd
\* returns the continue value and the loop goes on to the next prompt; and no
\* other step changes the working directory.
C12_CdErrorPaths ==
  /\ [][/\ act' = "cd" =>
            /\ pc' = "free" /\ status' = "running" /\ exit' = Assigned(0)
            /\ IF tokens[2] = NULL
               THEN cwd' = cwd /\ out' = <<Msg("err_cd_argument")>>
               ELSE IF CStr(user_in, tokens[2]) \in ExistingDirs
               THEN cwd' = CStr(user_in, tokens[2]) /\ out' = <<>>
               ELSE cwd' = cwd /\ out' = <<Msg("err_chdir")>>
        /\ cwd' # cwd => act' = "cd" /\ tokens[2] # NULL]_vars
  /\ []((act = "loop_while" /\ did = <<"cd">>) =>
          pc = "print_prompt" /\ status = "running")

\* C12 witness: after a cd that succeeded, a cd to a directory that does not
\* exist reported the error and left the working directory where it was.
C12_Witness ==
  /\ act = "cd" /\ pc = "free" /\ exit = Assigned(0)
  /\ out = <<Msg("err_chdir")>> /\ cwd = <<"d">>

\* The steps of the forked child, which leave the shell process as it is.
ChildSteps ==
  {"child_execvp", "child_exec_failed", "child_program_ends", "child_sig_handler"}

\* C13, as claimed: the shell process ends with success only after exit was
\* dispatched or the line read met end-of-input, and with failure only in a
\* failed working-directory lookup, a failed line read or a failed token-list
\* allocation; it ends in no other way.
C13_TerminationCausesAsClaimed ==
  (pc = "exited" /\ act \notin ChildSteps) =>
     \/ /\ status = "success"
        /\ \/ act = "loop_while" /\ did = <<"exit">>
           \/ act = "kush_read_line_fail" /\ out = <<>>
     \/ /\ status = "failure"
        /\ \/ act = "kush_print_prompt_print" /\ out = <<>>
           \/ act = "sig_handler" /\ Len(out) = 1
           \/ act = "kush_read_line_fail" /\ out = <<Msg("err_read")>>
           \/ act = "tokenize" /\ out = <<Msg("err_alloc")>>

\* C14, as claimed: every write kush_tokenize makes into the token list, the
\* final NULL included, is at an index below the capacity the list has at
\* that moment, whatever the number of tokens.
C14_WritesWithinCapacityAsClaimed ==
  act = "tokenize" =>
     /\ ~oob
     /\ pc = "run" => Len(tokens) <= buff_size

\* C15, as claimed: the line buffer and the token list of an iteration are
\* released before the next line read begins and before the loop exits, on
\* every path, so that no buffer is allocated while the loop awaits input.
C15_BuffersReleasedAsClaimed ==
  /\ pc \in AwaitingInput => live = [lines |-> 0, lists |-> 0]
  /\ (act = "loop_while" /\ pc = "exited") => live = [lines |-> 0, lists |-> 0]

\* C16: child_running is true whenever the parent is blocked in waitpid and
\* false whenever the loop prints the prompt, reads, tokenizes, dispatches,
\* has run a builtin, releases or tests its condition; only the executor of
\* a line handed to kush_exec sets it, and a handler invocation or a step of
\* the child leaves it as it was.
C16_ChildRunningFlag ==
  /\ child_running \in {0, 1}
  /\ pc = "waitpid" => child_running = 1
  /\ pc \in AwaitingInput \cup {"read_reset", "tokenize", "run", "set_child_running",
                                "free", "while"} => child_running = 0
  /\ act \in {"exit", "cd", "help"} => child_running = 0
  /\ child_running = 1 => did = <<"exec">>
  /\ act = "sig_handler" => child_running = pre.child_running
  /\ (act \in ChildSteps /\ pc = "waitpid") => child_running = 1

\* C16 witness: a SIGINT was handled while the parent was blocked waiting for
\* the program its child became, and child_running is still true.
C16_Witness ==
  /\ act = "sig_handler" /\ pc = "waitpid" /\ pre.pc = "waitpid"
  /\ child = "program" /\ child_running = 1

\* C17, as claimed: from a successful fork until the child is reaped
\* child_running is true in the parent, and a SIGINT handled in that time
\* never prints the exit hint.
C17_NoHintWhileChildAsClaimed ==
  /\ (pc \in {"set_child_running", "waitpid"} /\ child # "none") => child_running = 1
  /\ (act \in {"sig_handler", "child_sig_handler"} /\ child # "none") =>
       \A i \in 1..Len(out) : out[i].kind # "hint"

\* s with every run of delimiters replaced by one space.
RECURSIVE Collapse(_)
Collapse(s) ==
  IF s = <<>> THEN <<>>
  ELSE IF Head(s) \notin Delimiters THEN <<Head(s)>> \o Collapse(Tail(s))
  ELSE IF Len(s) > 1 /\ s[2] \in Delimiters THEN Collapse(Tail(s))
  ELSE <<" ">> \o Collapse(Tail(s))

\* The line opens with a quoted run of more than the quote character, and a
\* later run ends with the same quote character.
OpensQuotedSpan(l) ==
  /\ OpensQuoted(l)
  /\ FirstRun(l) < Len(l) /\ l[FirstRun(l) + 1] \notin Delimiters
  /\ Closings(l, FirstRun(l)) # {}

\* The first position that closes the quote opened by the first run of l.
FirstClosing(l) ==
  CHOOSE x \in Closings(l, FirstRun(l)) : \A y \in Closings(l, FirstRun(l)) : x <= y

\* C18, as claimed: in the value of the quoted token that opens the line,
\* every run of delimiters of the line appears as exactly one space.
C18_RunsCollapsedAsClaimed ==
  (act = "tokenize" /\ pc = "run" /\ OpensQuotedSpan(line)) =>
     CStr(user_in, tokens[1]) =
       Collapse(SubSeq(line, FirstRun(line) + 1, FirstClosing(line) - 1))

\* C18, amended: the value of the quoted token that opens the line is the
\* text between the quotes with the first character of every run of
\* delimiters replaced by a space and every other character, the further
\* delimiters of a run included, as it was in the line; and the list is
\* returned unless an allocation fails or a quote character follows the
\* closing quote.
C18_FirstDelimiterBecomesSpace ==
  (act = "tokenize" /\ OpensQuotedSpan(line)) =>
     LET o == FirstRun(line)
         c == FirstClosing(line)
     IN /\ \/ pc = "run"
           \/ AllocationFailed
           \/ \E i \in (c + 1)..Len(line) : line[i] \in Quotes
        /\ pc = "run" =>
             CStr(user_in, tokens[1]) =
               [i \in 1..(c - o - 1) |->
                  IF line[o + i] \in Delimiters /\ line[o + i - 1] \notin Delimiters
                  THEN " " ELSE line[o + i]]

\* C18 witness: the token of the line "a<tab><tab>b" keeps the second tab.
C18_Witness ==
  /\ act = "tokenize" /\ pc = "run"
  /\ line = <<"\"", "a", "\t", "\t", "b", "\"">>
  /\ CStr(user_in, tokens[1]) = <<"a", " ", "\t", "b">>
  /\ tokens[2] = NULL

\* C19, as claimed: no handler invocation runs its stdout writes and its
\* user lookup while the main flow it interrupted is within a buffered
\* stdout write, an allocation or a release.
C19_HandlerInterruptionSafeAsClaimed ==
  ~(act = "sig_handler" /\ pre.within \in {"stdout", "alloc", "release"})

\* C20, as claimed: a printed prompt shows the sentinel as hostname when the
\* hostname lookup failed and as username when the user lookup failed.
C20_SentinelOnLookupFailureAsClaimed ==
  \A i \in 1..Len(out) :
     out[i].kind = "prompt" =>
        /\ out[i].errcode # 0 => out[i].host = "<UNKNOWN>"
        /\ ~out[i].pw => out[i].user = "<UNKNOWN>"
=============================================================================
